---- MODULE Spec2Model ----
(***************************************************************************)
(* A model of ofx2json's streaming parser, Parse (src/main.go).            *)
(*                                                                         *)
(* Parse reads tokens from an xml.Decoder with RawToken and keeps: the     *)
(* open-element path stack, the pending-field marker `next`, the current   *)
(* transaction pointer `trans`, and the Ofx record being assembled.  One   *)
(* action of the model is one iteration of the loop of Parse: the switch   *)
(* on the token's type followed by the fetch of the next token.            *)
(*                                                                         *)
(* Strings of the input (character data) are sequences of one-character    *)
(* strings, so that trimming, length and the 8-character date prefix are   *)
(* computed as the code computes them.  Tag names are only ever compared,  *)
(* and are TLA+ strings.                                                   *)
(***************************************************************************)
EXTENDS Integers, Sequences, FiniteSets, TLC

VARIABLES
    ofx,      \* the Ofx record under construction (Transactions: pointers)
    heap,     \* the OfxTransaction objects allocated so far, by address 1..Len
    stack,    \* the live part of the path stack, stack[0 .. stackPos-1] in the code
    next,     \* the pending-field marker
    trans,    \* the current transaction: an address of heap, or NIL
    dec,      \* the token source: where the decoder is in the document
    tok,      \* the token RawToken returned last, to be processed next
    err,      \* the error RawToken returned last
    prev,     \* the token the last iteration processed
    logged,   \* the lines written with log.Printf, by kind
    ntok,     \* tokens delivered by the token source so far
    pc,       \* "loop" | "returned" | "panicked"
    ret       \* what Parse returned: [ofx, err]

vars == <<ofx, heap, stack, next, trans, dec, tok, err, prev, logged, ntok, pc, ret>>

-----------------------------------------------------------------------------
(* Bounds of the model. *)

\* Tokens the token source delivers before it must end the stream.
MaxTokens == 6

\* The same, for the specifications over larger alphabets.
MaxTokensBlocks == 10
MaxTokensDate == 3
MaxTokensFull == 4
MaxTokensAmount == 3
MaxTokensVocab == 2

-----------------------------------------------------------------------------
(* Text.  A Go string is a sequence of bytes, and so is a text here: len   *)
(* counts bytes and res[:8] cuts bytes.  A byte is written as its ASCII    *)
(* character where TLA+ has a string for it and as its two hexadecimal     *)
(* digits otherwise: "0B" is the vertical tab, <<"C2", "A0">> is U+00A0    *)
(* (no-break space) in UTF-8, <<"C3", "A9">> is U+00E9.  The token source  *)
(* delivers valid UTF-8 only.                                              *)

\* unicode.IsSpace, as the set of the UTF-8 encodings of its runes: the six
\* of ASCII (\t \n \v \f \r and the space), U+0085, U+00A0, U+1680,
\* U+2000..U+200A, U+2028, U+2029, U+202F, U+205F and U+3000.
SpaceRunes ==
    {<<"\t">>, <<"\n">>, <<"0B">>, <<"\f">>, <<"\r">>, <<" ">>,
     <<"C2", "85">>, <<"C2", "A0">>, <<"E1", "9A", "80">>,
     <<"E2", "80", "A8">>, <<"E2", "80", "A9">>, <<"E2", "80", "AF">>,
     <<"E2", "81", "9F">>, <<"E3", "80", "80">>}
        \cup {<<"E2", "80", b>> : b \in {"80", "81", "82", "83", "84", "85", "86", "87",
                                         "88", "89", "8A"}}

\* The longest encoding of a rune in SpaceRunes, in bytes.
SpaceRuneMax == 3

\* U+00A0, the no-break space, and U+00E9, a letter, in UTF-8.
NoBreakSpace == <<"C2", "A0">>
LetterEAcute == <<"C3", "A9">>

\* unicode.IsSpace(r), for the rune whose UTF-8 encoding is r.
IsSpace(r) == r \in SpaceRunes

\* The width of the white-space rune s begins with, 0 if it begins with none.
LeadingSpace(s) ==
    IF \E n \in 1..SpaceRuneMax : n <= Len(s) /\ IsSpace(SubSeq(s, 1, n))
    THEN CHOOSE n \in 1..SpaceRuneMax : n <= Len(s) /\ IsSpace(SubSeq(s, 1, n))
    ELSE 0

\* The width of the white-space rune s ends with, 0 if it ends with none.
TrailingSpace(s) ==
    IF \E n \in 1..SpaceRuneMax : n <= Len(s) /\ IsSpace(SubSeq(s, Len(s) - n + 1, Len(s)))
    THEN CHOOSE n \in 1..SpaceRuneMax :
            n <= Len(s) /\ IsSpace(SubSeq(s, Len(s) - n + 1, Len(s)))
    ELSE 0

RECURSIVE TrimLeft(_)
TrimLeft(s) ==
    IF LeadingSpace(s) = 0 THEN s
    ELSE TrimLeft(SubSeq(s, LeadingSpace(s) + 1, Len(s)))

RECURSIVE TrimRight(_)
TrimRight(s) ==
    IF TrailingSpace(s) = 0 THEN s
    ELSE TrimRight(SubSeq(s, 1, Len(s) - TrailingSpace(s)))

TrimSpace(s) == TrimRight(TrimLeft(s))

Digits == <<"0", "1", "2", "3", "4", "5", "6", "7", "8", "9">>

IsDigit(c) == \E i \in 1..10 : Digits[i] = c

DigitVal(c) == (CHOOSE i \in 1..10 : Digits[i] = c) - 1

\* The number a string of decimal digits denotes.
RECURSIVE Atoi(_)
Atoi(s) ==
    IF s = <<>> THEN 0
    ELSE 10 * Atoi(SubSeq(s, 1, Len(s) - 1)) + DigitVal(s[Len(s)])

AllDigits(s) == \A i \in 1..Len(s) : IsDigit(s[i])

-----------------------------------------------------------------------------
(* Dates: time.Parse("20060102", res) and the zero time.Time. *)

DatePrefixLen == 8

ZeroTime == [y |-> 1, m |-> 1, d |-> 1]

IsLeap(y) == y % 4 = 0 /\ (y % 100 # 0 \/ y % 400 = 0)

\* A variant that takes every month to have 31 days.
DaysInAny(m, y) == 31

\* The days of month m of year y.
DaysIn(m, y) ==
    IF m = 2 THEN (IF IsLeap(y) THEN 29 ELSE 28)
    ELSE IF m \in {4, 6, 9, 11} THEN 30
    ELSE 31

\* The layout 20060201 in place of 20060102.
DateFieldsDayFirst(s) ==
    [y |-> Atoi(SubSeq(s, 1, 4)), m |-> Atoi(SubSeq(s, 7, 8)), d |-> Atoi(SubSeq(s, 5, 6))]

\* The fields time.Parse reads from the 8 characters of the layout 20060102.
DateFields(s) ==
    [y |-> Atoi(SubSeq(s, 1, 4)), m |-> Atoi(SubSeq(s, 5, 6)), d |-> Atoi(SubSeq(s, 7, 8))]

\* time.Parse returns a nil error: 8 digits, month 1..12, day within the month.
TimeParseOk(s) ==
    /\ Len(s) = DatePrefixLen
    /\ AllDigits(s)
    /\ LET f == DateFields(s)
       IN  /\ f.m \in 1..12
           /\ f.d >= 1
           /\ f.d <= DaysIn(f.m, f.y)

TimeParse(s) == DateFields(s)

-----------------------------------------------------------------------------
(* Amounts: NewDecial, that is strconv.ParseFloat(s, 64), the float64      *)
(* product x * 100 and the conversion int64(x); and Decimal.String.        *)
(*                                                                         *)
(* float64 arithmetic is computed exactly.  A float64 is a record of its   *)
(* class cls ("finite", "inf" or "nan") and, when finite, the magnitude    *)
(* m * 2^(-k) with a significand m of at most 53 bits and k <= 1074; the   *)
(* sign is kept beside it.  Results are rounded to nearest, ties to even,  *)
(* with gradual underflow and overflow to infinity, as IEEE 754            *)
(* prescribes.  Naturals wider than TLC's integers are little-endian       *)
(* sequences of limbs in base LimbBase, and a Decimal (an int64) is its    *)
(* sign neg and its magnitude abs as such a natural.                       *)

LimbBase == 1024
LimbBits == 10
SignificandBits == 53
Float64MaxExp == 1024
Float64MinScale == 1074
Int64Bits == 63
CentsPerUnit == 100

\* The element of a set of one element: Only({F(x) : x \in {e}}) is F(e), with
\* e evaluated once, before F.
Only(S) == CHOOSE x \in S : TRUE

RECURSIVE Pow(_, _)
Pow(b, n) == IF n = 0 THEN 1 ELSE b * Pow(b, n - 1)

\* Drop the zero limbs at the top; zero is <<>>.
BigNorm(a) ==
    LET set == {i \in 1..Len(a) : a[i] # 0}
    IN  IF set = {} THEN <<>>
        ELSE SubSeq(a, 1, CHOOSE i \in set : \A j \in set : j <= i)

\* A natural of TLC as a wide natural.
RECURSIVE BigFromInt(_)
BigFromInt(n) == IF n = 0 THEN <<>> ELSE <<n % LimbBase>> \o BigFromInt(n \div LimbBase)

\* The limbs of a * k + c and the carry out of them, for small k and c: the
\* lower half of the limbs, then the upper half with the carry of the lower.
RECURSIVE MulLimbs(_, _, _)
MulLimbs(a, k, c) ==
    IF Len(a) = 0 THEN [limbs |-> <<>>, carry |-> c]
    ELSE IF Len(a) = 1
        THEN [limbs |-> <<(a[1] * k + c) % LimbBase>>, carry |-> (a[1] * k + c) \div LimbBase]
    ELSE LET h  == Len(a) \div 2
             lo == MulLimbs(SubSeq(a, 1, h), k, c)
             hi == MulLimbs(SubSeq(a, h + 1, Len(a)), k, lo.carry)
         IN  [limbs |-> lo.limbs \o hi.limbs, carry |-> hi.carry]

\* a * k + c, for small k and c.
BigMulAdd(a, k, c) ==
    LET Carried(p) == BigNorm(p.limbs \o BigFromInt(p.carry))
    IN  Carried(MulLimbs(a, k, c))

\* Long division of r * LimbBase^Len(a) + a by a small d: the limbs of the
\* quotient, the highest first, and the remainder.  The upper half of the
\* limbs is divided first, the lower half takes its remainder.
RECURSIVE DivLimbs(_, _, _)
DivLimbs(a, d, r) ==
    IF Len(a) = 0 THEN [high |-> <<>>, r |-> r]
    ELSE IF Len(a) = 1
        THEN [high |-> <<(r * LimbBase + a[1]) \div d>>, r |-> (r * LimbBase + a[1]) % d]
    ELSE LET h  == Len(a) \div 2
             hi == DivLimbs(SubSeq(a, h + 1, Len(a)), d, r)
             lo == DivLimbs(SubSeq(a, 1, h), d, hi.r)
         IN  [high |-> hi.high \o lo.high, r |-> lo.r]

\* [q, r] with a = q * d + r, 0 <= r < d, for small d.
BigDivMod(a, d) ==
    LET LowFirst(x) == [q |-> BigNorm([i \in 1..Len(a) |-> x.high[Len(a) + 1 - i]]), r |-> x.r]
    IN  LowFirst(DivLimbs(a, d, 0))

\* a with zero limbs at the top, to n limbs.
BigPad(a, n) == a \o [i \in 1..(n - Len(a)) |-> 0]

\* The limbs of a + b + c and the carry out of them, for a and b of one length.
RECURSIVE AddLimbs(_, _, _)
AddLimbs(a, b, c) ==
    IF Len(a) = 0 THEN [limbs |-> <<>>, carry |-> c]
    ELSE IF Len(a) = 1
        THEN [limbs |-> <<(a[1] + b[1] + c) % LimbBase>>, carry |-> (a[1] + b[1] + c) \div LimbBase]
    ELSE LET h  == Len(a) \div 2
             lo == AddLimbs(SubSeq(a, 1, h), SubSeq(b, 1, h), c)
             hi == AddLimbs(SubSeq(a, h + 1, Len(a)), SubSeq(b, h + 1, Len(b)), lo.carry)
         IN  [limbs |-> lo.limbs \o hi.limbs, carry |-> hi.carry]

\* a + b
BigAdd(a, b) ==
    LET Carried(x) == BigNorm(x.limbs \o BigFromInt(x.carry))
        Padded(n)  == Carried(AddLimbs(BigPad(a, n), BigPad(b, n), 0))
    IN  Padded(IF Len(a) > Len(b) THEN Len(a) ELSE Len(b))

\* The limbs of a - b - w and the borrow out of them, for a and b of one length.
RECURSIVE SubLimbs(_, _, _)
SubLimbs(a, b, w) ==
    IF Len(a) = 0 THEN [limbs |-> <<>>, borrow |-> w]
    ELSE IF Len(a) = 1
        THEN [limbs  |-> <<(a[1] - b[1] - w + LimbBase) % LimbBase>>,
              borrow |-> IF a[1] - b[1] - w < 0 THEN 1 ELSE 0]
    ELSE LET h  == Len(a) \div 2
             lo == SubLimbs(SubSeq(a, 1, h), SubSeq(b, 1, h), w)
             hi == SubLimbs(SubSeq(a, h + 1, Len(a)), SubSeq(b, h + 1, Len(b)), lo.borrow)
         IN  [limbs |-> lo.limbs \o hi.limbs, borrow |-> hi.borrow]

\* a - b, for a >= b.
BigSub(a, b) == BigNorm(SubLimbs(a, BigPad(b, Len(a)), 0).limbs)

\* a < b, for naturals without zero limbs at the top: by their lengths, and
\* by the highest limb they differ in.
BigLess(a, b) ==
    IF Len(a) # Len(b) THEN Len(a) < Len(b)
    ELSE LET set == {i \in 1..Len(a) : a[i] # b[i]}
         IN  set # {} /\ LET top == CHOOSE i \in set : \A j \in set : j <= i
                         IN  a[top] < b[top]

RECURSIVE SmallBitLen(_)
SmallBitLen(n) == IF n = 0 THEN 0 ELSE 1 + SmallBitLen(n \div 2)

BigBitLen(a) ==
    IF a = <<>> THEN 0 ELSE LimbBits * (Len(a) - 1) + SmallBitLen(a[Len(a)])

BigIsOdd(a) == a # <<>> /\ a[1] % 2 = 1

\* a * 2^n: whole limbs of zeros below, and the rest of the shift by a product.
BigShl(a, n) ==
    IF a = <<>> THEN <<>>
    ELSE [i \in 1..(n \div LimbBits) |-> 0] \o BigMulAdd(a, Pow(2, n % LimbBits), 0)

\* floor(a / 2^n)
BigShr(a, n) ==
    IF n \div LimbBits >= Len(a) THEN <<>>
    ELSE BigDivMod(SubSeq(a, (n \div LimbBits) + 1, Len(a)), Pow(2, n % LimbBits)).q

\* a * 10^e, by halves of e.
RECURSIVE BigMulPow10(_, _)
BigMulPow10(a, e) ==
    IF e <= 6 THEN BigMulAdd(a, Pow(10, e), 0)
    ELSE LET x == BigMulPow10(a, e \div 2)
         IN  IF x = <<>> THEN <<>> ELSE BigMulPow10(x, e - (e \div 2))

\* The natural a string of decimal digits denotes: by halves of the string.
RECURSIVE BigFromDigits(_)
BigFromDigits(s) ==
    IF Len(s) <= 6 THEN BigFromInt(Atoi(s))
    ELSE LET h == Len(s) \div 2
         IN  BigAdd(BigMulPow10(BigFromDigits(SubSeq(s, 1, h)), Len(s) - h),
                    BigFromDigits(SubSeq(s, h + 1, Len(s))))

\* The decimal digits of a wide natural, "0" for zero.
RECURSIVE BigItoa(_)
BigItoa(a) ==
    LET Written(dm) ==
            IF dm.q = <<>> THEN <<Digits[dm.r + 1]>> ELSE BigItoa(dm.q) \o <<Digits[dm.r + 1]>>
    IN  Written(BigDivMod(a, 10))

\* a / 2^n rounded to nearest, ties to even: `half` is the first bit dropped,
\* `sticky` says that some bit below it is set.
BigShrRound(a, n) ==
    LET Rounded(q, upper) ==
            IF /\ BigIsOdd(upper)
               /\ (BigNorm(BigShl(upper, n - 1)) # BigNorm(a) \/ BigIsOdd(q))
            THEN BigMulAdd(q, 1, 1)
            ELSE q
    IN  IF n = 0 THEN a ELSE Rounded(BigShr(a, n), BigShr(a, n - 1))

\* The float64 values that are no number, and zero.
Zero64 == [cls |-> "finite", m |-> <<>>, k |-> 0]
Inf64 == [cls |-> "inf", m |-> <<>>, k |-> 0]
NaN64 == [cls |-> "nan", m |-> <<>>, k |-> 0]

\* The float64 of magnitude m * 2^(-k): infinity when it is 2^1024 or more.
Finite64(m, k) ==
    IF m = <<>> THEN Zero64
    ELSE IF BigBitLen(m) - k > Float64MaxExp THEN Inf64
    ELSE [cls |-> "finite", m |-> m, k |-> k]

\* floor(a / 10^e), and whether the division leaves a remainder: by halves
\* of e.
RECURSIVE DivPow10(_, _)
DivPow10(a, e) ==
    LET Exact(dm)  == [q |-> dm.q, sticky |-> dm.r # 0]
        Lower2(hi, lo) == [q |-> lo.q, sticky |-> hi.sticky \/ lo.sticky]
        Upper(hi)  == IF hi.q = <<>> THEN hi ELSE Lower2(hi, DivPow10(hi.q, e - (e \div 2)))
    IN  IF e <= 6 THEN Exact(BigDivMod(a, Pow(10, e)))
        ELSE Upper(DivPow10(a, e \div 2))

\* floor(n * 2^s / (10^e10 * c)) for an integer s and a small c > 0, and
\* whether the quotient is inexact.
Quotient(n, s, e10, c) ==
    LET Inexact(a, d10, dc) ==
            [q      |-> dc.q,
             sticky |-> (s < 0 /\ BigShl(a, 0 - s) # n) \/ d10.sticky \/ dc.r # 0]
        ByPow10(a) ==
            Only({Inexact(a, d10, BigDivMod(d10.q, c)) : d10 \in {DivPow10(a, e10)}})
    IN  Only({ByPow10(a) : a \in {IF s >= 0 THEN BigShl(n, s) ELSE BigShr(n, 0 - s)}})

\* The float64 nearest to n / (10^e10 * c * 2^e2), for a wide natural n, a
\* natural e10, a small c > 0 and an integer e2.  The quotient is scaled by
\* 2^k to have SignificandBits bits, or by 2^1074, the scale of the subnormal
\* numbers, when that is less; g is the quotient with one bit more, its last
\* bit decides the rounding together with what the division dropped.
ToFloat64(n, e10, c, e2) ==
    LET Packed(r, k) ==
            IF BigBitLen(r) > SignificandBits
            THEN Finite64(BigShr(r, 1), k - 1)
            ELSE Finite64(r, k)
        Rounded(g, q, k) ==
            Packed(IF BigIsOdd(g.q) /\ (g.sticky \/ BigIsOdd(q)) THEN BigMulAdd(q, 1, 1) ELSE q, k)
        AtScale(k) ==
            Only({Rounded(g, BigShr(g.q, 1), k) : g \in {Quotient(n, k - e2 + 1, e10, c)}})
        Clamped(s1) ==
            Only({AtScale(k) :
                    k \in {IF s1 + e2 > Float64MinScale THEN Float64MinScale ELSE s1 + e2}})
        Fitted(s0) ==
            Only({Clamped(s1) :
                    s1 \in {IF BigBitLen(Quotient(n, s0, e10, c).q) > SignificandBits
                            THEN s0 - 1 ELSE s0}})
    IN  IF n = <<>> THEN Zero64
        ELSE Only({Fitted(s0) :
                     s0 \in {SignificandBits - BigBitLen(n)
                                + BigBitLen(BigMulPow10(BigFromInt(c), e10))}})

\* The letters, for matching without regard to case.
UpperLetters ==
    <<"A", "B", "C", "D", "E", "F", "G", "H", "I", "J", "K", "L", "M",
      "N", "O", "P", "Q", "R", "S", "T", "U", "V", "W", "X", "Y", "Z">>
LowerLetters ==
    <<"a", "b", "c", "d", "e", "f", "g", "h", "i", "j", "k", "l", "m",
      "n", "o", "p", "q", "r", "s", "t", "u", "v", "w", "x", "y", "z">>

Lower(c) ==
    IF \E i \in 1..Len(UpperLetters) : UpperLetters[i] = c
    THEN LowerLetters[CHOOSE i \in 1..Len(UpperLetters) : UpperLetters[i] = c]
    ELSE c

LowerAll(s) == [i \in 1..Len(s) |-> Lower(s[i])]

HexDigits == Digits \o <<"a", "b", "c", "d", "e", "f">>

IsHexDigit(c) == \E i \in 1..Len(HexDigits) : HexDigits[i] = Lower(c)

HexVal(c) == (CHOOSE i \in 1..Len(HexDigits) : HexDigits[i] = Lower(c)) - 1

\* The number a short string of hexadecimal digits denotes.
RECURSIVE HexAtoi(_)
HexAtoi(s) ==
    IF s = <<>> THEN 0
    ELSE 16 * HexAtoi(SubSeq(s, 1, Len(s) - 1)) + HexVal(s[Len(s)])

\* The natural a string of hexadecimal digits denotes: by halves of the string.
RECURSIVE BigFromHex(_)
BigFromHex(s) ==
    IF Len(s) <= 6 THEN BigFromInt(HexAtoi(s))
    ELSE LET h == Len(s) \div 2
         IN  BigAdd(BigShl(BigFromHex(SubSeq(s, 1, h)), 4 * (Len(s) - h)),
                    BigFromHex(SubSeq(s, h + 1, Len(s))))

\* The optional sign of a number.
HasSign(s) == s # <<>> /\ s[1] \in {"+", "-"}

Unsigned(s) == IF HasSign(s) THEN Tail(s) ELSE s

DotPos(u) ==
    IF \E i \in 1..Len(u) : u[i] = "."
    THEN CHOOSE i \in 1..Len(u) : u[i] = "." /\ \A j \in 1..(i - 1) : u[j] # "."
    ELSE 0

IntPart(u) == IF DotPos(u) = 0 THEN u ELSE SubSeq(u, 1, DotPos(u) - 1)

FracPart(u) == IF DotPos(u) = 0 THEN <<>> ELSE SubSeq(u, DotPos(u) + 1, Len(u))

\* special: "inf" and "infinity" with an optional sign and "nan" without one,
\* in any case of the letters.
SpecialInf(s) == LowerAll(Unsigned(s)) \in {<<"i", "n", "f">>, <<"i", "n", "f", "i", "n", "i", "t", "y">>}

SpecialNaN(s) == LowerAll(s) = <<"n", "a", "n">>

\* readFloat's loop over the mantissa of u from byte i on: the index of the
\* first byte it does not consume.  It takes digits (hexadecimal ones after
\* the prefix 0x), underscores, and one point.
RECURSIVE MantissaEnd(_, _, _, _)
MantissaEnd(u, i, sawdot, hex) ==
    IF i > Len(u) THEN i
    ELSE IF u[i] = "_" THEN MantissaEnd(u, i + 1, sawdot, hex)
    ELSE IF u[i] = "." THEN (IF sawdot THEN i ELSE MantissaEnd(u, i + 1, TRUE, hex))
    ELSE IF IsDigit(u[i]) \/ (hex /\ IsHexDigit(u[i])) THEN MantissaEnd(u, i + 1, sawdot, hex)
    ELSE i

\* readFloat's loop over the exponent: e*10 + digit while e < 10000,
\* underscores skipped.
RECURSIVE ExpValue(_, _, _)
ExpValue(y, i, e) ==
    IF i > Len(y) THEN e
    ELSE IF y[i] = "_" \/ e >= 10000 THEN ExpValue(y, i + 1, e)
    ELSE ExpValue(y, i + 1, e * 10 + DigitVal(y[i]))

\* underscoreOK's loop: saw is "0" after a digit or the base prefix, "_"
\* after an underscore, "!" after anything else, "^" at the start.
RECURSIVE UnderscoreScan(_, _, _, _)
UnderscoreScan(u, i, saw, hex) ==
    IF i > Len(u) THEN saw # "_"
    ELSE IF IsDigit(u[i]) \/ (hex /\ IsHexDigit(u[i])) THEN UnderscoreScan(u, i + 1, "0", hex)
    ELSE IF u[i] = "_" THEN (saw = "0" /\ UnderscoreScan(u, i + 1, "_", hex))
    ELSE IF saw = "_" THEN FALSE
    ELSE UnderscoreScan(u, i + 1, "!", hex)

\* underscoreOK(s): an underscore only between digits or after a base prefix.
UnderscoreOK(s) ==
    LET u      == Unsigned(s)
        prefix == Len(u) >= 2 /\ u[1] = "0" /\ Lower(u[2]) \in {"b", "o", "x"}
    IN  IF prefix THEN UnderscoreScan(u, 3, "0", Lower(u[2]) = "x")
        ELSE UnderscoreScan(u, 1, "^", FALSE)

\* readFloat(s), for the whole of s: ok says that s is a number, hex that it
\* is a hexadecimal one; digits are the digits of the mantissa, nfrac of them
\* after the point; e is the exponent written after e (or p).
ReadFloat(s) ==
    LET IsDig(c) == c \notin {"_", "."}
        Number(hex, mant, rest, hasExp) ==
            LET x      == IF hasExp THEN Tail(rest) ELSE <<>>
                y      == Unsigned(x)
                expOk  == /\ y # <<>>
                          /\ IsDigit(y[1])
                          /\ \A i \in 1..Len(y) : IsDigit(y[i]) \/ y[i] = "_"
                digits == SelectSeq(mant, IsDig)
            IN  [ok     |-> /\ digits # <<>>
                            /\ IF hasExp THEN expOk ELSE (~hex /\ rest = <<>>)
                            /\ (\E i \in 1..Len(s) : s[i] = "_") => UnderscoreOK(s),
                 hex    |-> hex,
                 digits |-> digits,
                 nfrac  |-> Len(SelectSeq(FracPart(mant), IsDig)),
                 e      |-> IF hasExp /\ expOk
                            THEN (IF x[1] = "-" THEN 0 - ExpValue(y, 1, 0) ELSE ExpValue(y, 1, 0))
                            ELSE 0]
        Parts(hex, mant, rest) ==
            Number(hex, mant, rest,
                   rest # <<>> /\ Lower(rest[1]) = (IF hex THEN "p" ELSE "e"))
        Mantissa(hex, b, end) == Parts(hex, SubSeq(b, 1, end - 1), SubSeq(b, end, Len(b)))
        Body(hex, b)  == Mantissa(hex, b, MantissaEnd(b, 1, FALSE, hex))
        Based(u, hex) == Body(hex, IF hex THEN SubSeq(u, 3, Len(u)) ELSE u)
        Signed(u)     == Based(u, Len(u) > 2 /\ u[1] = "0" /\ Lower(u[2]) = "x")
    IN  Signed(Unsigned(s))

\* A string is a number for ParseFloat.
WellFormedDecimal(s) == SpecialInf(s) \/ SpecialNaN(s) \/ ReadFloat(s).ok

\* The digits without the zeros they begin with.
RECURSIVE StripZeros(_)
StripZeros(s) == IF s # <<>> /\ s[1] = "0" THEN StripZeros(Tail(s)) ELSE s

\* The float64 nearest to digits * 10^e.  A value of 10^310 or more is
\* infinite and one below 10^(-330) is zero, whatever its digits are.
DecimalToFloat64(digits, e) ==
    LET Value(n, dp) ==
            IF n = <<>> THEN Zero64
            ELSE IF dp > 310 THEN Inf64
            ELSE IF dp < 0 - 330 THEN Zero64
            ELSE ToFloat64(IF e >= 0 THEN BigMulPow10(n, e) ELSE n,
                           IF e >= 0 THEN 0 ELSE 0 - e, 1, 0)
    IN  Value(BigFromDigits(digits), Len(StripZeros(digits)) + e)

\* The float64 nearest to digits * 2^e, for hexadecimal digits.  A value of
\* 2^1024 or more is infinite, one below 2^(-1075) is zero.
HexToFloat64(digits, e) ==
    LET Value(n) ==
            IF n = <<>> THEN Zero64
            ELSE IF BigBitLen(n) + e > Float64MaxExp THEN Inf64
            ELSE IF BigBitLen(n) + e < 0 - Float64MinScale THEN Zero64
            ELSE ToFloat64(n, 0, 1, 0 - e)
    IN  Value(BigFromHex(digits))

\* strconv.ParseFloat(s, 64): the sign and the magnitude of the value, and
\* whether the error is nil.  The value of a string that is no number is 0
\* with a syntax error; that of a number of 2^1024 or more is infinite with a
\* range error.
ParseFloat(s) ==
    LET Signed(f) == [ok |-> f.cls = "finite", neg |-> s[1] = "-", f |-> f]
        Value(r)  ==
            IF ~r.ok THEN [ok |-> FALSE, neg |-> FALSE, f |-> Zero64]
            ELSE Signed(IF r.hex THEN HexToFloat64(r.digits, r.e - 4 * r.nfrac)
                        ELSE DecimalToFloat64(r.digits, r.e - r.nfrac))
    IN  IF SpecialInf(s) THEN [ok |-> TRUE, neg |-> s[1] = "-", f |-> Inf64]
        ELSE IF SpecialNaN(s) THEN [ok |-> TRUE, neg |-> FALSE, f |-> NaN64]
        ELSE Value(ReadFloat(s))

\* The float64 product f * c of magnitudes, for a small natural c > 0.
MulFloat64(f, c) ==
    LET Rounded(p, sh) ==
            IF sh <= 0 THEN Finite64(p, f.k)
            ELSE Finite64(BigShrRound(p, sh), f.k - sh)
        Product(p) == Rounded(p, BigBitLen(p) - SignificandBits)
    IN  IF f.cls # "finite" \/ f.m = <<>> THEN f
        ELSE Product(BigMulAdd(f.m, c, 0))

\* The magnitude of a finite float64 truncated to a natural.
TruncFloat64(f) ==
    IF f.k >= 0 THEN BigShr(f.m, f.k) ELSE BigShl(f.m, 0 - f.k)

\* The int64 values.
Int64(neg, abs) == [neg |-> neg /\ abs # <<>>, abs |-> abs]
MinInt64 == Int64(TRUE, BigShl(<<1>>, Int64Bits))
MaxInt64 == Int64(FALSE, BigSub(BigShl(<<1>>, Int64Bits), <<1>>))

\* int64(x) for the float64 x of sign neg and magnitude f: the values the
\* conversion can give.  It truncates a value that fits an int64.  The result
\* for a value that does not fit, an infinity or a NaN depends on the
\* machine: the smallest int64 (amd64), the int64 nearest to the value, with
\* 0 for a NaN (arm64, wasm), or the largest int64 for a NaN (riscv64).
ToInt64(neg, f) ==
    LET Truncated(t) ==
            IF BigLess(t, MinInt64.abs) THEN {Int64(neg, t)}
            ELSE IF neg THEN {MinInt64}
            ELSE {MinInt64, MaxInt64}
    IN  IF f.cls = "nan" THEN {MinInt64, Int64(FALSE, <<>>), MaxInt64}
        ELSE IF f.cls = "inf" THEN (IF neg THEN {MinInt64} ELSE {MinInt64, MaxInt64})
        ELSE Truncated(TruncFloat64(f))

\* NewDecial(s): the hundredths, through float64; the values it can return.
NewDecial(s) ==
    UNION {ToInt64(x.neg, MulFloat64(x.f, CentsPerUnit)) : x \in {ParseFloat(s)}}

\* float64(d): the float64 nearest to the magnitude of an int64.
Float64OfInt64(abs) == ToFloat64(abs, 0, 1, 0)

\* The float64 quotient f / c of magnitudes, for a finite f and a small
\* natural c > 0.
DivFloat64(f, c) == ToFloat64(f.m, 0, c, f.k)

\* fmt.Sprintf("%.2f", x) for a finite float64 magnitude: the hundredths
\* nearest to the exact value of x, ties to even, written with two
\* fractional digits.
Sprintf2f(f) ==
    LET Written(dm) ==
            BigItoa(dm.q) \o <<".", Digits[(dm.r \div 10) + 1], Digits[(dm.r % 10) + 1]>>
        Rounded(c)  ==
            Written(BigDivMod(IF f.m = <<>> THEN <<>>
                              ELSE IF f.k >= 0 THEN BigShrRound(c, f.k)
                              ELSE BigShl(c, 0 - f.k),
                              CentsPerUnit))
    IN  Rounded(BigMulAdd(f.m, CentsPerUnit, 0))

\* Decimal.String()
String(d) ==
    (IF d.neg THEN <<"-">> ELSE <<>>) \o Sprintf2f(DivFloat64(Float64OfInt64(d.abs), CentsPerUnit))

-----------------------------------------------------------------------------
(* The records of the program. *)

NIL == 0

\* Decimal(0)
ZeroDecimal == Int64(FALSE, <<>>)

\* The zero value of OfxTransaction, what &OfxTransaction{} allocates.
EmptyTransaction ==
    [FitID |-> <<>>, Type |-> <<>>, PostedDateTime |-> ZeroTime,
     UserDateTime |-> ZeroTime, Amount |-> ZeroDecimal, Memo |-> <<>>]

\* &Ofx{Transactions: []*OfxTransaction{}}
EmptyOfx ==
    [GeneratedDateTime |-> ZeroTime, Language |-> <<>>,
     AccountBankNumber |-> <<>>, AccountNumber |-> <<>>, AccountType |-> <<>>,
     Currency |-> <<>>, LedgerBalance |-> ZeroDecimal,
     AvailiableBalance |-> ZeroDecimal,
     TransactionStartDateTime |-> ZeroTime, TrnasactionEndDateTime |-> ZeroTime,
     Transactions |-> <<>>]

\* The capacity of the path stack, make([]string, 1000).
StackCap == 1000

stackPos == Len(stack)

\* The values of nextKey.
none == "none"
acctID == "acctID"
acctType == "acctType"
curDef == "curDef"
branchID == "branchID"
bankID == "bankID"
transAmount == "transAmount"
transDatePosted == "transDatePosted"
transUserDate == "transUserDate"
transFitID == "transFitID"
transDesc == "transDesc"
transMemo == "transMemo"
transType == "transType"
legerBal == "legerBal"
AvailBal == "AvailBal"

nextKey ==
    {none, acctID, acctType, curDef, branchID, bankID, transAmount, transDatePosted,
     transUserDate, transFitID, transDesc, transMemo, transType, legerBal, AvailBal}

-----------------------------------------------------------------------------
(* Tokens: what dec.RawToken() returns. *)

StartElement(name) == [kind |-> "StartElement", name |-> name, data |-> <<>>]
EndElement(name) == [kind |-> "EndElement", name |-> name, data |-> <<>>]
CharData(text) == [kind |-> "CharData", name |-> "", data |-> text]
\* Any other token type: xml.Comment, xml.ProcInst, xml.Directive.
Comment == [kind |-> "Comment", name |-> "", data |-> <<>>]
\* The nil token that comes with an error.
NoToken == [kind |-> "nil", name |-> "", data |-> <<>>]

\* The tokens over a set of tag names and a set of texts.
TokensOver(names, texts) ==
    {StartElement(n) : n \in names} \cup {EndElement(n) : n \in names}
        \cup {CharData(t) : t \in texts} \cup {Comment}

\* A result of RawToken: the token, the error, and the source after the call.
Result(t, e, d) == [tok |-> t, err |-> e, dec |-> d]

\* The end of the stream (io.EOF) and an error of the markup (*xml.SyntaxError).
EndResults(d) == {Result(NoToken, "EOF", d), Result(NoToken, "SyntaxError", d)}

\* The results RawToken can give when the source has delivered ntok tokens of at
\* most max: a token of `in` with a nil error, or no token with an error.
RawToken(in, max) ==
    (IF ntok < max THEN {Result(t, "nil", dec) : t \in in} ELSE {}) \cup EndResults(dec)

NoReturn == [ofx |-> "-", err |-> "-"]

-----------------------------------------------------------------------------
(* Parse, up to the loop: lines 110-120. *)

\* rs: the results the first call of RawToken can give.
Init(rs) ==
    /\ ofx = EmptyOfx
    /\ heap = <<>>
    /\ stack = <<>>
    /\ next = none
    /\ trans = NIL
    /\ prev = NoToken
    /\ logged = <<>>
    /\ pc = "loop"
    /\ ret = NoReturn
    /\ \E r \in rs :
          /\ tok = r.tok
          /\ err = r.err
          /\ dec = r.dec
          /\ ntok = IF r.err = "nil" THEN 1 ELSE 0

\* tok, err = dec.RawToken() at the end of an iteration, and the log of an
\* error that is not io.EOF; rs are the results the call can give, lg is the
\* log the iteration leaves.
Advance(rs, lg) ==
    \E r \in rs :
        /\ tok' = r.tok
        /\ err' = r.err
        /\ dec' = r.dec
        /\ ntok' = IF r.err = "nil" THEN ntok + 1 ELSE ntok
        /\ logged' = IF r.err \notin {"nil", "EOF"} THEN Append(lg, "Error") ELSE lg
        /\ prev' = tok

\* A run-time panic of the Go program: the process ends without a return.
Panic ==
    /\ pc' = "panicked"
    /\ prev' = tok
    /\ UNCHANGED <<ofx, heap, stack, next, trans, dec, tok, err, logged, ntok, ret>>

\* return nil, e
ReturnError(e) ==
    /\ pc' = "returned"
    /\ ret' = [ofx |-> "nil", err |-> e]
    /\ prev' = tok
    /\ UNCHANGED <<ofx, heap, stack, next, trans, dec, tok, err, logged, ntok>>

-----------------------------------------------------------------------------
(* case xml.StartElement: lines 123-168. *)

\* The switch on t.Name.Local: the marker after a start tag named name, cur
\* being the marker before it.
StartKey(name, cur) ==
    CASE name = "ACCTID"    -> acctID
      [] name = "BRANCHID"  -> branchID
      [] name = "BANKID"    -> bankID
      [] name = "ACCTTYPE"  -> acctType
      [] name = "CURDEF"    -> curDef
      [] name = "DTPOSTED"  -> transDatePosted
      [] name = "FITID"     -> transFitID
      [] name = "TRNAMT"    -> transAmount
      [] name = "NAME"      -> transDesc
      [] name = "MEMO"      -> transMemo
      [] name = "TRNTYPE"   -> transType
      [] name = "LEDGERBAL" -> legerBal
      [] name = "AVAILBAL"  -> AvailBal
      [] OTHER              -> cur

\* The start tag that opens a transaction block.
IsTransactionTag(name) == name = "STMTTRN"

\* trans = &OfxTransaction{}: a new object, of zero value, at a new address.
\* (a variant that copies the object allocated last)
AllocateStale(h) == Append(h, IF h = <<>> THEN EmptyTransaction ELSE h[Len(h)])
Allocate(h) == Append(h, EmptyTransaction)

\* The assignment to trans: the address of the new object, the last of h2,
\* whatever tr, the current transaction before, is.
\* (a variant that keeps tr when there is a current transaction)
AllocatedIfNone(h2, tr) == IF tr # NIL THEN tr ELSE Len(h2)
Allocated(h2, tr) == Len(h2)

\* stack[stackPos] = ... indexes past the array: Go panics, index out of range.
StackFull == stackPos >= StackCap

DoStartElement(rs) ==
    /\ pc = "loop" /\ err = "nil"
    /\ tok.kind = "StartElement"
    /\ IF StackFull THEN Panic
       ELSE /\ stack' = Append(stack, tok.name)
            /\ next' = StartKey(tok.name, next)
            /\ IF IsTransactionTag(tok.name)
               THEN /\ heap' = Allocate(heap)
                    /\ trans' = Allocated(heap', trans)
               ELSE UNCHANGED <<heap, trans>>
            /\ Advance(rs, logged)
            /\ UNCHANGED <<ofx, pc, ret>>

-----------------------------------------------------------------------------
(* case xml.CharData: lines 170-226. *)

\* The markers whose case calls NewDecial(res).
AmountKeys == {legerBal, AvailBal, transAmount}

\* The markers whose case stores into the Ofx record, and the store; amount
\* is what NewDecial(res) has returned.
OfxKeys == {acctID, bankID, curDef, acctType, legerBal, AvailBal}

SetOfx(o, key, res, amount) ==
    CASE key = acctID   -> [o EXCEPT !.AccountNumber = res]
      [] key = bankID   -> [o EXCEPT !.AccountBankNumber = res]
      [] key = curDef   -> [o EXCEPT !.Currency = res]
      [] key = acctType -> [o EXCEPT !.AccountType = res]
      [] key = legerBal -> [o EXCEPT !.LedgerBalance = amount]
      [] key = AvailBal -> [o EXCEPT !.AvailiableBalance = amount]
      [] OTHER          -> o

\* The markers whose case stores through the pointer trans, and the store.
TransKeys == {transDesc, transMemo, transFitID, transDatePosted, transAmount, transType}

SetTrans(t, key, res, amount) ==
    CASE key = transDesc       -> [t EXCEPT !.Memo = res]
      [] key = transMemo       -> [t EXCEPT !.Memo = res]
      [] key = transFitID      -> [t EXCEPT !.FitID = res]
      [] key = transDatePosted -> [t EXCEPT !.PostedDateTime = TimeParse(SubSeq(res, 1, DatePrefixLen))]
      [] key = transAmount     -> [t EXCEPT !.Amount = amount]
      [] key = transType       -> [t EXCEPT !.Type = res]
      [] OTHER                 -> t

\* if len(res) < 8
\* (a variant with the bound off by one)
DateTooShortByOne(res) == Len(res) < DatePrefixLen - 1
DateTooShort(res) == Len(res) < DatePrefixLen

\* res[:8] of a string shorter than 8 bytes panics.
SliceOutOfRange(res) == Len(res) < DatePrefixLen

\* time.Parse("20060102", res[:8]) returns an error.
DateInvalid(res) == ~TimeParseOk(SubSeq(res, 1, DatePrefixLen))

\* The marker after a character-data event: next = none.
\* (a variant that keeps the marker)
KeyKept(cur) == cur
KeyAfterCharData(cur) == none

DoCharData(rs) ==
    /\ pc = "loop" /\ err = "nil"
    /\ tok.kind = "CharData"
    /\ LET res == TrimSpace(tok.data)
       IN  IF next = transDatePosted /\ DateTooShort(res)
             THEN ReturnError("Invalid date posted string")
           ELSE IF next = transDatePosted /\ SliceOutOfRange(res)
             THEN Panic     \* slice bounds out of range
           ELSE IF next = transDatePosted /\ DateInvalid(res)
             THEN ReturnError("parsing time")
           ELSE IF next \in TransKeys /\ trans = NIL
             THEN Panic     \* nil pointer dereference
           ELSE \E amount \in (IF next \in AmountKeys THEN NewDecial(res) ELSE {ZeroDecimal}) :
                /\ ofx' = SetOfx(ofx, next, res, amount)
                /\ heap' = IF next \in TransKeys
                           THEN [heap EXCEPT ![trans] = SetTrans(heap[trans], next, res, amount)]
                           ELSE heap
                /\ next' = KeyAfterCharData(next)
                /\ Advance(rs, logged)
                /\ UNCHANGED <<stack, trans, pc, ret>>

-----------------------------------------------------------------------------
(* case xml.EndElement: lines 228-240. *)

\* if stack[stackPos-1] == "STMTTRN": the entry at the top flushes trans.
Flushes(top) == top = "STMTTRN"

\* if stack[stackPos-1] == t.Name.Local: the entry at the top ends the unwind.
\* (a variant that takes any entry at the top to resolve the end tag)
ResolvesAtTop(top, name) == TRUE
\* (a variant in which no entry resolves the end tag)
ResolvesNever(top, name) == FALSE
Resolves(top, name) == top = name

\* The loop without its trans = nil.
RECURSIVE UnwindKeepsTrans(_, _, _, _)
UnwindKeepsTrans(stk, txs, tr, name) ==
    IF Len(stk) = 0 THEN [stack |-> stk, Transactions |-> txs, trans |-> tr]
    ELSE LET top  == stk[Len(stk)]
             txs2 == IF Flushes(top) THEN Append(txs, tr) ELSE txs
             rest == SubSeq(stk, 1, Len(stk) - 1)
         IN  IF Resolves(top, name)
             THEN [stack |-> rest, Transactions |-> txs2, trans |-> tr]
             ELSE UnwindKeepsTrans(rest, txs2, tr, name)

\* The loop flushing only for the end tag of the transaction block itself.
RECURSIVE UnwindOwnTagOnly(_, _, _, _)
UnwindOwnTagOnly(stk, txs, tr, name) ==
    IF Len(stk) = 0 THEN [stack |-> stk, Transactions |-> txs, trans |-> tr]
    ELSE LET top  == stk[Len(stk)]
             own  == Flushes(top) /\ Flushes(name)
             txs2 == IF own THEN Append(txs, tr) ELSE txs
             tr2  == IF own THEN NIL ELSE tr
             rest == SubSeq(stk, 1, Len(stk) - 1)
         IN  IF Resolves(top, name)
             THEN [stack |-> rest, Transactions |-> txs2, trans |-> tr2]
             ELSE UnwindOwnTagOnly(rest, txs2, tr2, name)

\* The loop for stackPos != 0: the stack, the transaction list and the current
\* transaction it leaves.
RECURSIVE Unwind(_, _, _, _)
Unwind(stk, txs, tr, name) ==
    IF Len(stk) = 0 THEN [stack |-> stk, Transactions |-> txs, trans |-> tr]
    ELSE LET top  == stk[Len(stk)]
             txs2 == IF Flushes(top) THEN Append(txs, tr) ELSE txs
             tr2  == IF Flushes(top) THEN NIL ELSE tr
             rest == SubSeq(stk, 1, Len(stk) - 1)
         IN  IF Resolves(top, name)
             THEN [stack |-> rest, Transactions |-> txs2, trans |-> tr2]
             ELSE Unwind(rest, txs2, tr2, name)

DoEndElement(rs) ==
    /\ pc = "loop" /\ err = "nil"
    /\ tok.kind = "EndElement"
    /\ LET u == Unwind(stack, ofx.Transactions, trans, tok.name)
       IN  /\ stack' = u.stack
           /\ ofx' = [ofx EXCEPT !.Transactions = u.Transactions]
           /\ trans' = u.trans
    /\ Advance(rs, logged)
    /\ UNCHANGED <<heap, next, pc, ret>>

-----------------------------------------------------------------------------
(* default: lines 242-243, and the return of lines 121 and 253. *)

DoDefault(rs) ==
    /\ pc = "loop" /\ err = "nil"
    /\ tok.kind = "Comment"
    /\ Advance(rs, Append(logged, "Unknown"))
    /\ UNCHANGED <<ofx, heap, stack, next, trans, pc, ret>>

\* The record behind the pointer of return ofx, nil: the loop has ended and
\* nothing is added for an element that is still open.
\* (a variant that flushes an open transaction block at the return)
FlushedAtReturn(o, stk, tr) ==
    IF \E i \in 1..Len(stk) : Flushes(stk[i])
    THEN [o EXCEPT !.Transactions = Append(@, tr)]
    ELSE o
ReturnedOfx(o, stk, tr) == o

\* for err == nil { ... }; return ofx, nil
Return ==
    /\ pc = "loop" /\ err # "nil"
    /\ pc' = "returned"
    /\ ofx' = ReturnedOfx(ofx, stack, trans)
    /\ ret' = [ofx |-> "ofx", err |-> "nil"]
    /\ UNCHANGED <<heap, stack, next, trans, dec, tok, err, prev, logged, ntok>>

-----------------------------------------------------------------------------
(* The specifications: Parse over a token source of a given alphabet. *)

\* The structure of the document: transaction blocks, a leaf field of the
\* transaction and one of the statement, an enclosing element; any order of
\* tokens.
Names == {"STMTTRN", "FITID", "OFX", "ACCTID"}
Texts == {<<"A">>, <<"B">>}
Tokens == TokensOver(Names, Texts)

\* The source before the first call, for a source that keeps no position.
NoPosition == [phase |-> "free"]

Source == RawToken(Tokens, MaxTokens)

Next ==
    \/ DoStartElement(Source)
    \/ DoCharData(Source)
    \/ DoEndElement(Source)
    \/ DoDefault(Source)
    \/ Return

Spec == Init({Result(t, "nil", NoPosition) : t \in Tokens} \cup EndResults(NoPosition)) /\ [][Next]_vars

-----------------------------------------------------------------------------
(* A token source that delivers a document of consecutive transaction      *)
(* blocks, as the format writes them:                                      *)
(*    document ::= [ <OFX> ] block*                                        *)
(*    block    ::= <STMTTRN> field* </STMTTRN>                             *)
(*    field    ::= <FITID> text [ </FITID> ]  |  <MEMO> text [ </MEMO> ]   *)
(* with white space and comments between the elements, and the stream      *)
(* ending anywhere.  The position dec records what the document has said:  *)
(* cur, the field values of the block that is open; done, those of the     *)
(* blocks closed by their end tag, in document order; implicit, how many   *)
(* leaf elements of the open block have had no end tag.                    *)

LeafNames == {"FITID", "MEMO"}
BlockTexts == {<<"A">>, <<" ", "B", "\n">>, NoBreakSpace \o <<"A">>}
WhiteSpace == <<"\n">>
BlockNames == LeafNames \cup {"STMTTRN", "OFX"}

NoFields == [FitID |-> <<>>, Memo |-> <<>>]

DocStart == [phase |-> "start", field |-> "", cur |-> NoFields, done |-> <<>>, implicit |-> 0]

SaidField(cur, name, text) ==
    IF name = "FITID" THEN [cur EXCEPT !.FitID = TrimSpace(text)]
    ELSE [cur EXCEPT !.Memo = TrimSpace(text)]

OpenBlock(d) ==
    {Result(StartElement("STMTTRN"), "nil",
            [d EXCEPT !.phase = "inblock", !.field = "", !.cur = NoFields, !.implicit = 0])}

Filler(d) == {Result(Comment, "nil", d), Result(CharData(WhiteSpace), "nil", d)}

InBlock(d) ==
    {Result(StartElement(n), "nil",
            [d EXCEPT !.phase = "armed", !.field = n, !.implicit = @ + 1]) : n \in LeafNames}
        \cup {Result(EndElement("STMTTRN"), "nil",
                     [d EXCEPT !.phase = "between", !.field = "", !.done = Append(@, d.cur)])}
        \cup Filler(d)

BlockMoves(d) ==
    CASE d.phase = "start" ->
            {Result(StartElement("OFX"), "nil", [d EXCEPT !.phase = "between"])}
                \cup OpenBlock(d) \cup Filler(d)
      [] d.phase = "between" -> OpenBlock(d) \cup Filler(d)
      [] d.phase = "inblock" -> InBlock(d)
      [] d.phase = "armed" ->
            {Result(CharData(t), "nil",
                    [d EXCEPT !.phase = "closable", !.cur = SaidField(@, d.field, t)]) : t \in BlockTexts}
                \cup {Result(Comment, "nil", d)}
      [] d.phase = "closable" ->
            InBlock(d) \cup {Result(EndElement(d.field), "nil",
                                    [d EXCEPT !.phase = "inblock", !.field = "", !.implicit = @ - 1])}

BlockSource ==
    (IF ntok < MaxTokensBlocks THEN BlockMoves(dec) ELSE {}) \cup EndResults(dec)

NextBlocks ==
    \/ DoStartElement(BlockSource)
    \/ DoCharData(BlockSource)
    \/ DoEndElement(BlockSource)
    \/ DoDefault(BlockSource)
    \/ Return

SpecBlocks == Init(BlockMoves(DocStart) \cup EndResults(DocStart)) /\ [][NextBlocks]_vars

-----------------------------------------------------------------------------
(* A token source for the posted date and the amount: a transaction block, *)
(* the DTPOSTED and TRNAMT fields, an unknown element, and character data  *)
(* that is a date (8 digits and a suffix), too short for one, or not one;  *)
(* some of it with characters of more than one byte.                       *)

Digit(n) == Digits[n + 1]

\* YYYYMMDD, zero padded.
FormatDate(y, m, d) ==
    <<Digit(y \div 1000), Digit((y \div 100) % 10), Digit((y \div 10) % 10), Digit(y % 10),
      Digit(m \div 10), Digit(m % 10), Digit(d \div 10), Digit(d % 10)>>

\* Days of the calendar, and 8-digit strings that are no day of it.
ValidDays ==
    {<<2024, 2, 29>>, <<2023, 12, 29>>, <<2023, 12, 31>>, <<2024, 12, 29>>, <<2024, 12, 31>>}
InvalidDays ==
    {<<2023, 2, 29>>, <<2023, 2, 31>>, <<2024, 2, 31>>, <<2024, 13, 1>>, <<2024, 12, 0>>}

\* What follows the date: nothing, or a time and a time zone.
DateSuffixes == {<<>>, <<"1", "2", "0", "0", "[", "-", "5", ":", "E", "]">>}

\* A date, and a date after a no-break space.
ValidDateTexts ==
    {FormatDate(t[1], t[2], t[3]) \o x : t \in ValidDays, x \in DateSuffixes}
        \cup {NoBreakSpace \o FormatDate(2024, 2, 29)}

\* Fewer than 8 characters, but 8 bytes or more: five letters of two bytes.
WideShortDateTexts ==
    {LetterEAcute \o LetterEAcute \o LetterEAcute \o LetterEAcute \o LetterEAcute}

\* At least 8 characters after trimming, the first 8 of which are no date.
InvalidDateTexts ==
    {FormatDate(t[1], t[2], t[3]) \o x : t \in InvalidDays, x \in DateSuffixes}
        \cup {<<"2", "0", "2", "4", "-", "0", "2", "-", "2", "9">>,
              <<"1", "2", ",", "5", "0", " ", "U", "S", "D">>}

\* Fewer than 8 bytes after trimming.
ShortDateTexts ==
    {<<>>, <<"2", "0", "2", "4">>, <<"2", "0", "2", "4", "0", "2", "2">>,
     <<" ", "2", "0", "2", "4", "1", "2", "3", "\n">>, <<"1", "2", ".", "5", "0">>,
     NoBreakSpace \o <<"2", "0", "2", "4", "0", "2", "2">>}

DateNames == {"STMTTRN", "DTPOSTED", "TRNAMT", "OFX"}
DateTexts == ValidDateTexts \cup InvalidDateTexts \cup ShortDateTexts \cup WideShortDateTexts
DateTokens == TokensOver(DateNames, DateTexts)

DateSource == RawToken(DateTokens, MaxTokensDate)

NextDate ==
    \/ DoStartElement(DateSource)
    \/ DoCharData(DateSource)
    \/ DoEndElement(DateSource)
    \/ DoDefault(DateSource)
    \/ Return

SpecDate ==
    Init({Result(t, "nil", NoPosition) : t \in DateTokens} \cup EndResults(NoPosition))
        /\ [][NextDate]_vars

-----------------------------------------------------------------------------
(* Parse at the capacity of the path stack: the state it is in after       *)
(* StackCap - 2 start tags of an element OFX, each one pushed, and what a  *)
(* token source does to it from there.  The only end tag is that of OFX,   *)
(* which the entry at the top or the one below it resolves.                *)

DeepDepth == StackCap - 2

DeepNames == {"OFX", "STMTTRN"}
DeepTokens ==
    {StartElement(n) : n \in DeepNames} \cup {EndElement("OFX"), CharData(<<"A">>), Comment}

InitDeep ==
    /\ ofx = EmptyOfx
    /\ heap = <<>>
    /\ stack = [i \in 1..DeepDepth |-> "OFX"]
    /\ next = none
    /\ trans = NIL
    /\ prev = StartElement("OFX")
    /\ logged = <<>>
    /\ pc = "loop"
    /\ ret = NoReturn
    /\ dec = NoPosition
    /\ ntok = DeepDepth + 1
    /\ err = "nil"
    /\ tok \in DeepTokens

DeepSource == RawToken(DeepTokens, DeepDepth + MaxTokensFull)

NextDeep ==
    \/ DoStartElement(DeepSource)
    \/ DoCharData(DeepSource)
    \/ DoEndElement(DeepSource)
    \/ DoDefault(DeepSource)
    \/ Return

SpecDeep == InitDeep /\ [][NextDeep]_vars

-----------------------------------------------------------------------------
(* A token source for amounts: the ledger balance, a transaction block and *)
(* its amount, and character data that is a decimal number with at most    *)
(* two fractional digits, or a number in another form strconv.ParseFloat   *)
(* reads: with an exponent, hexadecimal, an infinity, not a number.        *)

AmountTexts ==
    {<<"1", "2", "3", "4", ".", "5", "6">>, <<"0", ".", "2", "9">>, <<"-", "4", "2", ".", "5">>,
     <<"7">>, <<"-", "0", ".", "5", "8">>, <<"1", ".", "1", "0">>}

OtherNumberTexts ==
    {<<"1", "e", "2">>, <<"0", "x", "1", "p", "-", "2">>, <<"-", "I", "n", "f">>, <<"n", "a", "n">>,
     NoBreakSpace \o <<"7">>}

AmountNames == {"LEDGERBAL", "STMTTRN", "TRNAMT"}
AmountTokens == TokensOver(AmountNames, AmountTexts \cup OtherNumberTexts)

AmountSource == RawToken(AmountTokens, MaxTokensAmount)

NextAmount ==
    \/ DoStartElement(AmountSource)
    \/ DoCharData(AmountSource)
    \/ DoEndElement(AmountSource)
    \/ DoDefault(AmountSource)
    \/ Return

SpecAmount ==
    Init({Result(t, "nil", NoPosition) : t \in AmountTokens} \cup EndResults(NoPosition))
        /\ [][NextAmount]_vars

-----------------------------------------------------------------------------
(* A token source for the tag names: every name the switch on the start    *)
(* tag has a case for, the user date tag DTUSER of the format, which it    *)
(* has none for, and the name OFX of an element that carries no field.     *)

VocabNames ==
    {"ACCTID", "BRANCHID", "BANKID", "ACCTTYPE", "CURDEF", "STMTTRN", "DTPOSTED", "FITID",
     "TRNAMT", "NAME", "MEMO", "TRNTYPE", "LEDGERBAL", "AVAILBAL", "DTUSER", "OFX"}
VocabTokens == TokensOver(VocabNames, {<<"A">>})

VocabSource == RawToken(VocabTokens, MaxTokensVocab)

NextVocab ==
    \/ DoStartElement(VocabSource)
    \/ DoCharData(VocabSource)
    \/ DoEndElement(VocabSource)
    \/ DoDefault(VocabSource)
    \/ Return

SpecVocab ==
    Init({Result(t, "nil", NoPosition) : t \in VocabTokens} \cup EndResults(NoPosition))
        /\ [][NextVocab]_vars

-----------------------------------------------------------------------------
(* The claims. *)

\* An iteration of the loop is about to process the token t.
Processing(t) == pc = "loop" /\ err = "nil" /\ tok = t

\* The transaction a pointer of the list refers to.
Entry(o, h, i) == h[o.Transactions[i]]

\* The record a block that said the fields f must give.
RecordOf(f) == [EmptyTransaction EXCEPT !.FitID = f.FitID, !.Memo = f.Memo]

\* The index of the topmost STMTTRN entry of the stack, 0 if there is none.
TopTransaction(stk) ==
    IF \E i \in 1..Len(stk) : stk[i] = "STMTTRN"
    THEN CHOOSE i \in 1..Len(stk) :
            stk[i] = "STMTTRN" /\ \A j \in (i + 1)..Len(stk) : stk[j] # "STMTTRN"
    ELSE 0

\* C1: in a document of transaction blocks, processing the end tag of a block
\* pops the STMTTRN entry together with every leaf entry above it whose own end
\* tag never came, and appends exactly one transaction, which carries the field
\* values (FitID, Memo) the block said.
C1_ImplicitCloseUnwind ==
    [][Processing(EndElement("STMTTRN")) =>
        /\ TopTransaction(stack) > 0
        /\ Len(stack) - TopTransaction(stack) = dec.implicit
        /\ stack' = SubSeq(stack, 1, TopTransaction(stack) - 1)
        /\ Len(ofx'.Transactions) = Len(ofx.Transactions) + 1
        /\ SubSeq(ofx'.Transactions, 1, Len(ofx.Transactions)) = ofx.Transactions
        /\ ofx'.Transactions[Len(ofx'.Transactions)] # NIL
        /\ Entry(ofx', heap', Len(ofx'.Transactions)) = RecordOf(dec.done[Len(dec.done)])
      ]_vars

\* The end tag of a block has closed two leaf elements implicitly, and the list
\* holds the one transaction, with the FitID the block said.
C1_Witness ==
    /\ prev = EndElement("STMTTRN")
    /\ pc = "loop"
    /\ dec.implicit = 2
    /\ dec.phase = "between"
    /\ Len(dec.done) = 1
    /\ dec.done[1].FitID = <<"A">>
    /\ stack = <<>>
    /\ Len(ofx.Transactions) = 1
    /\ heap[ofx.Transactions[1]].FitID = <<"A">>

\* C2: when Parse returns from a document of n transaction blocks, each closed
\* by its end tag, the list has n entries, in document order, and entry k holds
\* the field values block k said and the zero value in every other field.
C2_BlocksInOrder ==
    (pc = "returned" /\ dec.phase \in {"start", "between"}) =>
        /\ ret = [ofx |-> "ofx", err |-> "nil"]
        /\ Len(ofx.Transactions) = Len(dec.done)
        /\ \A k \in 1..Len(dec.done) :
              /\ ofx.Transactions[k] # NIL
              /\ Entry(ofx, heap, k) = RecordOf(dec.done[k])
        /\ \A j, k \in 1..Len(dec.done) : j # k => ofx.Transactions[j] # ofx.Transactions[k]

\* Two blocks: the first said only FITID, the second only MEMO.
C2_Witness ==
    /\ pc = "returned"
    /\ dec.phase = "between"
    /\ dec.done = <<[FitID |-> <<"A">>, Memo |-> <<>>], [FitID |-> <<>>, Memo |-> <<"B">>]>>
    /\ Len(ofx.Transactions) = 2
    /\ Entry(ofx, heap, 1).FitID = <<"A">>
    /\ Entry(ofx, heap, 2).FitID = <<>>
    /\ Entry(ofx, heap, 2).Memo = <<"B">>

\* The addresses the transaction list holds.
Listed(o) == {o.Transactions[i] : i \in 1..Len(o.Transactions)}

\* C3: when the stream ends (io.EOF or an error) with a STMTTRN entry on the
\* path stack, Parse returns the transaction list as the end-tag unwinds left
\* it: nothing is appended, and the current transaction is not in the list.
C3_NoFlushOnEOF ==
    [][(pc = "loop" /\ err # "nil" /\ TopTransaction(stack) > 0) =>
        /\ pc' = "returned"
        /\ ret' = [ofx |-> "ofx", err |-> "nil"]
        /\ ofx'.Transactions = ofx.Transactions
        /\ heap' = heap
        /\ (trans # NIL => trans \notin Listed(ofx'))
      ]_vars

\* Parse has returned with a block open whose FITID was read; the list holds
\* only the transaction of the block closed before.
C3_Witness ==
    /\ pc = "returned"
    /\ err = "EOF"
    /\ stack = <<"STMTTRN", "FITID">>
    /\ trans # NIL
    /\ heap[trans].FitID = <<"A">>
    /\ Len(ofx.Transactions) = 1
    /\ ofx.Transactions[1] # trans

\* C4: every step leaves the transaction list a prefix of what it becomes, and
\* leaves every transaction the list points to as it was.
C4_AppendOnlyImmutable ==
    [][/\ Len(ofx'.Transactions) >= Len(ofx.Transactions)
       /\ SubSeq(ofx'.Transactions, 1, Len(ofx.Transactions)) = ofx.Transactions
       /\ \A a \in Listed(ofx) \ {NIL} : heap'[a] = heap[a]
      ]_vars

\* A character-data event has stored into the current transaction while the
\* list already held an entry, which is as it was appended.
C4_Witness ==
    /\ pc = "loop"
    /\ prev = CharData(<<"B">>)
    /\ trans # NIL
    /\ heap[trans].FitID = <<"B">>
    /\ Len(ofx.Transactions) = 1
    /\ ofx.Transactions[1] # NIL
    /\ ofx.Transactions[1] # trans
    /\ Entry(ofx, heap, 1) = EmptyTransaction

\* C5: a character-data event leaves the pending-field marker none, and a
\* character-data event that follows another one directly stores nothing: the
\* Ofx record and every transaction stay as they are.
C5_FirstChunkWins ==
    [][(pc = "loop" /\ err = "nil" /\ tok.kind = "CharData") =>
        /\ (pc' = "loop" => next' = none)
        /\ (prev.kind = "CharData" =>
               next = none /\ pc' = "loop" /\ ofx' = ofx /\ heap' = heap)
      ]_vars

\* A second chunk of character data is about to be processed, the first having
\* set the FitID of the current transaction.
C5_Witness ==
    /\ Processing(CharData(<<"B">>))
    /\ prev = CharData(<<"A">>)
    /\ stack = <<"STMTTRN", "FITID">>
    /\ trans # NIL
    /\ heap[trans].FitID = <<"A">>

\* An iteration is about to process character data with the posted-date marker
\* pending.
PostedDateText == pc = "loop" /\ err = "nil" /\ tok.kind = "CharData" /\ next = transDatePosted

\* C6: when the posted-date marker is pending and the character data, trimmed,
\* is shorter than 8 characters, the iteration ends Parse: it returns an error
\* and no record, fetches no further token and stores nothing; and nothing
\* happens after a return.  The error is that of an invalid date-posted string
\* when the text is shorter than 8 bytes, and that of time.Parse when its
\* characters fill 8 bytes or more.
C6_ShortDateAborts ==
    [][/\ pc # "returned"
       /\ (PostedDateText /\ tok.data \in ShortDateTexts \cup WideShortDateTexts) =>
             /\ pc' = "returned"
             /\ ret' = [ofx |-> "nil",
                         err |-> IF tok.data \in ShortDateTexts
                                 THEN "Invalid date posted string"
                                 ELSE "parsing time"]
             /\ ntok' = ntok /\ tok' = tok
             /\ ofx' = ofx /\ heap' = heap /\ stack' = stack
      ]_vars

\* Parse has returned the error for a text of 9 characters that trims to 7,
\* inside a transaction block.
C6_Witness ==
    /\ pc = "returned"
    /\ ret = [ofx |-> "nil", err |-> "Invalid date posted string"]
    /\ prev = CharData(<<" ", "2", "0", "2", "4", "1", "2", "3", "\n">>)
    /\ stack = <<"STMTTRN", "DTPOSTED">>
    /\ trans # NIL

\* C7 as claimed: Parse returns an error only for posted-date text shorter than
\* 8 characters; posted-date text of 8 or more characters returns no error.
C7_ErrorOnlyForShortDate ==
    (pc = "returned" /\ ret.err # "nil") =>
        (/\ prev.kind = "CharData"
         /\ next = transDatePosted
         /\ prev.data \in ShortDateTexts \cup WideShortDateTexts)

\* C7, amended: an iteration returns an error exactly when the posted-date
\* marker is pending and the character data is shorter than 8 characters or
\* its first 8 characters are not a date of the calendar written YYYYMMDD; it
\* then returns no record.  No other token makes Parse return an error: at the
\* end of the stream Parse returns the record and a nil error.
C7_ErrorOnlyForBadDate ==
    [][/\ (pc = "loop" /\ err = "nil") =>
             /\ (pc' = "returned") <=>
                    (/\ PostedDateText
                     /\ tok.data \in ShortDateTexts \cup WideShortDateTexts \cup InvalidDateTexts)
             /\ (pc' = "returned" => ret'.ofx = "nil" /\ ret'.err # "nil")
       /\ (pc = "loop" /\ err # "nil") =>
             (pc' = "returned" /\ ret' = [ofx |-> "ofx", err |-> "nil"])
      ]_vars

\* Parse has returned the error of time.Parse for the text 20230229 and a time.
C7_Witness ==
    /\ pc = "returned"
    /\ ret = [ofx |-> "nil", err |-> "parsing time"]
    /\ prev = CharData(FormatDate(2023, 2, 29) \o <<"1", "2", "0", "0", "[", "-", "5", ":", "E", "]">>)
    /\ next = transDatePosted

\* C8 as claimed: the path stack never holds more than StackCap entries, and a
\* start tag that arrives when it holds StackCap is rejected by a guard of
\* Parse: Parse returns an error.
C8_GuardedCapacity ==
    [][/\ stackPos' <= StackCap
       /\ (pc = "loop" /\ err = "nil" /\ tok.kind = "StartElement" /\ stackPos = StackCap) =>
             (pc' = "returned" /\ ret'.err # "nil")
      ]_vars

\* C9 as claimed: when RawToken reports an error other than io.EOF, the error
\* has been logged, and Parse returns the record assembled so far, with every
\* transaction flushed, and a nil error.
C9_TokenErrorLoggedAndTolerated ==
    [][(pc = "loop" /\ err \notin {"nil", "EOF"}) =>
        /\ Len(logged) > 0
        /\ logged[Len(logged)] = "Error"
        /\ pc' = "returned"
        /\ ret' = [ofx |-> "ofx", err |-> "nil"]
        /\ ofx' = ofx /\ heap' = heap
      ]_vars

\* C10: for every day of the calendar written as 8 digits YYYYMMDD and every
\* suffix, character data that is the 8 digits followed by the suffix, with or
\* without a no-break space before it, arriving with the posted-date marker
\* pending and a current transaction, sets the posted date of the current
\* transaction to that day, and Parse goes on.
C10_DatePrefix ==
    [][\A t \in ValidDays : \A x \in DateSuffixes : \A lead \in {<<>>, NoBreakSpace} :
          (/\ PostedDateText
           /\ tok.data = lead \o FormatDate(t[1], t[2], t[3]) \o x
           /\ trans # NIL) =>
              /\ pc' = "loop"
              /\ trans' = trans
              /\ heap'[trans].PostedDateTime = [y |-> t[1], m |-> t[2], d |-> t[3]]
      ]_vars

\* The text 20240229 followed by a time and a zone has set the posted date.
C10_Witness ==
    /\ pc = "loop"
    /\ prev = CharData(FormatDate(2024, 2, 29) \o <<"1", "2", "0", "0", "[", "-", "5", ":", "E", "]">>)
    /\ stack = <<"STMTTRN", "DTPOSTED">>
    /\ trans # NIL
    /\ heap[trans].PostedDateTime = [y |-> 2024, m |-> 2, d |-> 29]

\* The text of a decimal number [-] digits [. digits], of at most two
\* fractional digits, written with exactly two.
TwoDigits(s) ==
    LET u == Unsigned(s)
        f == FracPart(u)
    IN  (IF HasSign(s) THEN <<s[1]>> ELSE <<>>) \o IntPart(u) \o <<".">>
            \o (IF Len(f) = 0 THEN <<"0", "0">> ELSE IF Len(f) = 1 THEN f \o <<"0">> ELSE f)

\* The hundredths the text denotes, exactly, as a Decimal.
Hundredths(s) ==
    LET t == TwoDigits(s)
        u == Unsigned(t)
        h == 100 * Atoi(IntPart(u)) + Atoi(FracPart(u))
    IN  Int64(HasSign(s) /\ s[1] = "-", BigFromInt(h))

\* C11 as claimed: when the character data of the ledger-balance element is
\* the amount text a, the ledger balance of the record is the fixed-point value
\* of a and formats back as a (with two fractional digits).
C11_LedgerBalanceRoundTrip ==
    [][\A a \in AmountTexts :
          (Processing(CharData(a)) /\ next = legerBal) =>
              /\ ofx'.LedgerBalance = Hundredths(a)
              /\ String(ofx'.LedgerBalance) = TwoDigits(a)
      ]_vars

\* C12 as claimed: for every decimal string s with at most two fractional
\* digits, here the text of a transaction amount, the Decimal NewDecial gives
\* formats as s with exactly two fractional digits and its sign.
C12_AmountRoundTrip ==
    [][\A s \in AmountTexts :
          (Processing(CharData(s)) /\ next = transAmount /\ trans # NIL) =>
              String(heap'[trans].Amount) = TwoDigits(s)
      ]_vars

\* The index of the topmost entry of the stack named n, 0 if there is none.
TopIndex(stk, n) ==
    IF \E i \in 1..Len(stk) : stk[i] = n
    THEN CHOOSE i \in 1..Len(stk) : stk[i] = n /\ \A j \in (i + 1)..Len(stk) : stk[j] # n
    ELSE 0

\* The number of STMTTRN entries of the stack.
TransactionEntries(stk) == Cardinality({i \in 1..Len(stk) : stk[i] = "STMTTRN"})

\* C13: over any token stream no transaction record is in the list twice;
\* the list grows only in the iteration of an end tag, and then by one entry
\* for each STMTTRN entry the unwind removes from the stack.
C13_FlushedAtMostOnce ==
    [][/\ \A i, j \in 1..Len(ofx'.Transactions) :
             (i # j /\ ofx'.Transactions[i] # NIL) => ofx'.Transactions[i] # ofx'.Transactions[j]
       /\ Len(ofx'.Transactions) - Len(ofx.Transactions)
             = IF pc = "loop" /\ err = "nil" /\ tok.kind = "EndElement"
               THEN TransactionEntries(stack) - TransactionEntries(stack')
               ELSE 0
      ]_vars

\* Two blocks have been opened and closed: two records, each in the list once.
C13_Witness ==
    /\ prev = EndElement("STMTTRN")
    /\ Len(heap) = 2
    /\ ofx.Transactions = <<1, 2>>
    /\ stack = <<>>
    /\ trans = NIL

\* C14: an end tag of an element that lies below a STMTTRN entry on the stack
\* appends the current transaction to the list, clears it, and pops down to and
\* including the topmost entry of that element.
C14_FlushOnLeavingScope ==
    [][\A n \in Names \ {"STMTTRN"} :
          (Processing(EndElement(n)) /\ TopIndex(stack, n) > 0
                /\ TopTransaction(stack) > TopIndex(stack, n)) =>
              /\ stack' = SubSeq(stack, 1, TopIndex(stack, n) - 1)
              /\ Len(ofx'.Transactions) > Len(ofx.Transactions)
              /\ SubSeq(ofx'.Transactions, 1, Len(ofx.Transactions)) = ofx.Transactions
              /\ ofx'.Transactions[Len(ofx.Transactions) + 1] = trans
              /\ trans' = NIL
              /\ pc' = "loop"
      ]_vars

\* The end tag of the enclosing element OFX is about to be processed with the
\* block and its FITID still open, the FitID read.
C14_Witness ==
    /\ Processing(EndElement("OFX"))
    /\ stack = <<"OFX", "STMTTRN", "FITID">>
    /\ trans # NIL
    /\ heap[trans].FitID = <<"A">>
    /\ ofx.Transactions = <<>>

\* C15: an end tag whose name is not on the stack empties the stack, and the
\* parse goes on; an end tag whose name is on the stack pops down to and
\* including the topmost entry of that name and leaves the entries below.
C15_UnwindTerminates ==
    [][\A n \in Names :
          Processing(EndElement(n)) =>
              /\ pc' = "loop"
              /\ ret' = NoReturn
              /\ IF TopIndex(stack, n) = 0
                 THEN stack' = <<>> /\ Len(stack) - Len(stack') = Len(stack)
                 ELSE stack' = SubSeq(stack, 1, TopIndex(stack, n) - 1)
      ]_vars

\* An end tag that is not on a stack of three entries is about to be processed.
C15_Witness ==
    /\ Processing(EndElement("ACCTID"))
    /\ stack = <<"OFX", "STMTTRN", "FITID">>

\* C16: a STMTTRN start tag that arrives while there is a current transaction
\* makes a new, empty record the current one, without appending the previous
\* one; and a record that is neither current nor in the list never enters the
\* list.
C16_OverwrittenNeverListed ==
    [][/\ (pc = "loop" /\ err = "nil" /\ tok = StartElement("STMTTRN") /\ trans # NIL) =>
             /\ trans' # trans
             /\ heap'[trans'] = EmptyTransaction
             /\ heap'[trans] = heap[trans]
             /\ ofx'.Transactions = ofx.Transactions
       /\ \A a \in 1..Len(heap) : (a # trans /\ a \notin Listed(ofx)) => a \notin Listed(ofx')
      ]_vars

\* Parse has returned: the first record, with its FitID, was overwritten by a
\* second block, and the list holds the second record only.
C16_Witness ==
    /\ pc = "returned"
    /\ Len(heap) = 2
    /\ heap[1].FitID = <<"A">>
    /\ ofx.Transactions = <<2>>

\* The table of the recognized vocabulary: the marker of the field a tag name
\* stands for, and cur, the marker before, for a name outside the vocabulary.
VocabularyMarker(name, cur) ==
    CASE name = "ACCTID"    -> acctID
      [] name = "BANKID"    -> bankID
      [] name = "ACCTTYPE"  -> acctType
      [] name = "CURDEF"    -> curDef
      [] name = "TRNAMT"    -> transAmount
      [] name = "DTPOSTED"  -> transDatePosted
      [] name = "DTUSER"    -> transUserDate
      [] name = "FITID"     -> transFitID
      [] name = "NAME"      -> transDesc
      [] name = "MEMO"      -> transMemo
      [] name = "TRNTYPE"   -> transType
      [] name = "LEDGERBAL" -> legerBal
      [] name = "AVAILBAL"  -> AvailBal
      [] OTHER              -> cur

\* C17: a start tag is pushed onto the stack; a start tag of the recognized
\* vocabulary (account id, bank id, account type, currency, amount, posted
\* date, user date, transaction id, description, memo, type, ledger and
\* available balance) sets the marker to the marker of its field, and a start
\* tag of any other name leaves the marker as it was.
C17_VocabularyArmsMarker ==
    [][\A n \in VocabNames :
          Processing(StartElement(n)) =>
              /\ stack' = Append(stack, n)
              /\ next' = VocabularyMarker(n, next)
      ]_vars

\* C18: no entry of the transaction list is nil.
C18_NoNilEntry == NIL \notin Listed(ofx)

\* C19: when character data is about to be processed with the marker at a
\* transaction field (for the posted date, with text of 8 characters or
\* more), there is a current transaction.
C19_CurrentTransactionExists ==
    (/\ pc = "loop" /\ err = "nil" /\ tok.kind = "CharData"
     /\ next \in TransKeys
     /\ (next = transDatePosted => Len(TrimSpace(tok.data)) >= DatePrefixLen))
        => trans # NIL

\* C20: character data that populates a field of the statement or of a
\* transaction arrives while the start tag that set the marker is on the
\* stack: some entry of the stack has the name that sets the marker to its
\* value.
C20_PopulatedWhileArmingTagOpen ==
    [][(/\ pc = "loop" /\ err = "nil" /\ tok.kind = "CharData"
        /\ (ofx' # ofx \/ heap' # heap)) =>
            \E i \in 1..Len(stack) : StartKey(stack[i], none) = next
      ]_vars

====
